---- MODULE Spec2Model ----
(***************************************************************************)
(* json2markdown: the recursive JSON -> Markdown renderer of src/src/lib.rs *)
(* (MarkdownRenderer) and the older converter of src/src/cht.rs.            *)
(*                                                                         *)
(* Text is a sequence of one-character strings, so that prefixes, runs of  *)
(* characters and trimming are computed, not assumed.  The recursion of    *)
(* render_value / render_object / render_array is unfolded into a call     *)
(* stack: one action per loop iteration, one per return.                   *)
(***************************************************************************)
EXTENDS Naturals, Sequences, FiniteSets

VARIABLES
    indent_spaces,    \* MarkdownRenderer.indent_spaces
    depth_increment,  \* MarkdownRenderer.depth_increment
    json,             \* the value given to render / split_at_period / load_json
    output,           \* the output buffer (lib.rs) or `markdown` (cht.rs)
    stack,            \* the call stack of the recursive renderers
    pc,               \* position of the top-level call
    last              \* the locals of the loop iteration that ran last

vars == <<indent_spaces, depth_increment, json, output, stack, pc, last>>

---------------------------------------------------------------------------
(* Bounds of the model *)

MaxDepth == 2
MaxIndentSpaces == 1
MaxDepthIncrement == 2
MaxTextLen == 5
MaxChtDepth == 8

---------------------------------------------------------------------------
(* Text helpers *)

NL == "\n"

Repeat(c, n) == [i \in 1..n |-> c]

BlankLine == <<NL, NL>>

IsWhitespace(c) == c \in {" ", "\n", "\t"}

LowerLetters ==
    <<"a","b","c","d","e","f","g","h","i","j","k","l","m",
      "n","o","p","q","r","s","t","u","v","w","x","y","z">>

UpperLetters ==
    <<"A","B","C","D","E","F","G","H","I","J","K","L","M",
      "N","O","P","Q","R","S","T","U","V","W","X","Y","Z">>

IsUpper(c) == \E i \in 1..26 : UpperLetters[i] = c

ToUpper(c) ==
    IF \E i \in 1..26 : LowerLetters[i] = c
    THEN UpperLetters[CHOOSE i \in 1..26 : LowerLetters[i] = c]
    ELSE c

ToLower(c) ==
    IF \E i \in 1..26 : UpperLetters[i] = c
    THEN LowerLetters[CHOOSE i \in 1..26 : UpperLetters[i] = c]
    ELSE c

IsWordSeparator(c) == c \in {"_", "-", " "}

StartsWith(text, prefix) ==
    /\ Len(text) >= Len(prefix)
    /\ SubSeq(text, 1, Len(prefix)) = prefix

\* text has `part` at position p (1-based)
OccursAt(text, part, p) ==
    /\ p >= 1
    /\ p + Len(part) - 1 <= Len(text)
    /\ SubSeq(text, p, p + Len(part) - 1) = part

Contains(text, part) == \E p \in 1..(Len(text) + 1) : OccursAt(text, part, p)

\* str::trim: strip leading and trailing whitespace
RECURSIVE TrimStart(_)
TrimStart(text) ==
    IF text # <<>> /\ IsWhitespace(Head(text)) THEN TrimStart(Tail(text)) ELSE text

RECURSIVE TrimEnd(_)
TrimEnd(text) ==
    IF text # <<>> /\ IsWhitespace(text[Len(text)])
    THEN TrimEnd(SubSeq(text, 1, Len(text) - 1))
    ELSE text

Trim(text) == TrimEnd(TrimStart(text))

\* Inflect::to_title_case as used on keys: words are separated by `_`, `-`
\* or a space; each word is capitalised and the words are joined by a space.
RECURSIVE TitleWords(_, _)
TitleWords(key, new_word) ==
    IF key = <<>> THEN <<>>
    ELSE IF IsWordSeparator(Head(key)) THEN TitleWords(Tail(key), TRUE)
    ELSE <<[c |-> Head(key), first |-> new_word]>> \o TitleWords(Tail(key), FALSE)

RECURSIVE JoinTitle(_, _)
JoinTitle(marked, at_start) ==
    IF marked = <<>> THEN <<>>
    ELSE LET m == Head(marked)
         IN  (IF m.first
              THEN (IF at_start THEN <<>> ELSE <<" ">>) \o <<ToUpper(m.c)>>
              ELSE <<ToLower(m.c)>>)
             \o JoinTitle(Tail(marked), FALSE)

to_title_case(key) == JoinTitle(TitleWords(key, TRUE), TRUE)

---------------------------------------------------------------------------
(* serde_json::Value.  One record shape for every kind: `s` is the text of *)
(* a string, a number or a boolean; `items` is the entries of an object    *)
(* (<<key, value>>) or the items of an array (<<<<>>, value>>).            *)

Null == [kind |-> "null", s |-> <<>>, items |-> <<>>]
Bool(text) == [kind |-> "bool", s |-> text, items |-> <<>>]
Number(text) == [kind |-> "number", s |-> text, items |-> <<>>]
String(text) == [kind |-> "string", s |-> text, items |-> <<>>]
Object(entries) == [kind |-> "object", s |-> <<>>, items |-> entries]
Array(values) ==
    [kind |-> "array", s |-> <<>>,
     items |-> [i \in 1..Len(values) |-> <<<<>>, values[i]>>]]

is_empty(value) == Len(value.items) = 0

IsNonEmpty(value, kind) == value.kind = kind /\ ~is_empty(value)

---------------------------------------------------------------------------
(* Literal text of src/src/lib.rs *)

SectionMarker == <<"#", "#", " ">>
SubsectionMarker == <<"#", "#", "#", " ">>
ListKeyOpen == <<"-", " ", "*", "*">>
ListKeyClose == <<"*", "*">>
NestedArrayMarker == <<" ", " ", "-", " ">>
ArrayMarker == <<"-", " ">>
KeySeparator == <<":", " ">>
\* mutant: JSON's own text for null
NullTextJson == <<"n", "u", "l", "l">>

NullText == <<"N", "/", "A">>
UrlPrefix == <<"h", "t", "t", "p">>

---------------------------------------------------------------------------
(* MarkdownRenderer *)

get_indent(depth) == Repeat(" ", depth * indent_spaces)

\* mutant: the abbreviation guard (?![A-Z]\.) left out
SplitRegexNoGuard(text, i) ==
    /\ text[i] = "."
    /\ i + 1 <= Len(text)
    /\ IsWhitespace(text[i + 1])

\* SPLIT_REGEX  \.(?=\s+(?![A-Z]\.))  matches the period at position i when
\* some non-empty run of whitespace after it (the engine backtracks over the
\* lengths of \s+) is not followed by an uppercase letter and a period.
SplitRegexMatchesAt(text, i) ==
    /\ text[i] = "."
    /\ \E n \in 1..(Len(text) - i) :
          /\ \A j \in 1..n : IsWhitespace(text[i + j])
          /\ ~ /\ i + n + 2 <= Len(text)
               /\ IsUpper(text[i + n + 1])
               /\ text[i + n + 2] = "."

is_match(text) == \E i \in 1..Len(text) : SplitRegexMatchesAt(text, i)

\* SPLIT_REGEX.split(text): the pieces between the matched periods
RECURSIVE SplitFrom(_, _)
SplitFrom(text, start) ==
    LET matches == {i \in start..Len(text) : SplitRegexMatchesAt(text, i)}
    IN  IF matches = {} THEN <<SubSeq(text, start, Len(text))>>
        ELSE LET i == CHOOSE m \in matches : \A n \in matches : m <= n
             IN  <<SubSeq(text, start, i - 1)>> \o SplitFrom(text, i + 1)

regex_split(text) == SplitFrom(text, 1)

RECURSIVE FoldParts(_, _)
FoldParts(parts, indent) ==
    IF parts = <<>> THEN <<>>
    ELSE indent \o Trim(Head(parts)) \o BlankLine \o FoldParts(Tail(parts), indent)

\* Cow<str>: owned = FALSE is Cow::Borrowed(text)
split_at_period(text, depth) ==
    IF ~is_match(text)
    THEN [owned |-> FALSE, text |-> text, parts |-> <<>>]
    ELSE [owned |-> TRUE,
          text  |-> FoldParts(regex_split(text), get_indent(depth)),
          parts |-> regex_split(text)]

format_value(value, style, written_before) ==
    LET before_value == IF written_before THEN KeySeparator ELSE <<>>
    IN  IF style \in {"ListItem", "NestedItem"}
        THEN before_value \o value \o <<NL>>
        ELSE before_value \o value \o BlankLine

\* mutant: header levels one too deep
StyleTransitionOffByOne(depth, style) ==
    IF depth = 0 /\ style = "Root"
    THEN [new_style |-> "Subsection", header_marker |-> SubsectionMarker,
          depth_increment |-> 0]
    ELSE [new_style |-> "ListItem", header_marker |-> <<>>,
          depth_increment |-> depth_increment]

\* the match on (depth, style) at the head of render_object's loop
StyleTransition(depth, style) ==
    IF depth = 0 /\ style = "Root"
    THEN [new_style |-> "Section", header_marker |-> SectionMarker,
          depth_increment |-> 0]
    ELSE IF depth = 1 /\ style = "Section"
    THEN [new_style |-> "Subsection", header_marker |-> SubsectionMarker,
          depth_increment |-> 0]
    ELSE [new_style |-> "ListItem", header_marker |-> <<>>,
          depth_increment |-> depth_increment]

\* mutant: a heading ended by a single newline
formatted_key_one_newline(indent, new_style, header_marker, key) ==
    IF new_style \in {"Section", "Subsection"}
    THEN indent \o header_marker \o to_title_case(key) \o <<NL>>
    ELSE IF new_style = "ListItem"
    THEN indent \o ListKeyOpen \o to_title_case(key) \o ListKeyClose
    ELSE to_title_case(key)

formatted_key(indent, new_style, header_marker, key) ==
    IF new_style \in {"Section", "Subsection"}
    THEN indent \o header_marker \o to_title_case(key) \o BlankLine
    ELSE IF new_style = "ListItem"
    THEN indent \o ListKeyOpen \o to_title_case(key) \o ListKeyClose
    ELSE to_title_case(key)

\* mutant: only https counts as a URL
starts_with_https(value) == StartsWith(value, UrlPrefix \o <<"s">>)

starts_with_http(value) == StartsWith(value, UrlPrefix)

is_in_root(local_increment) == local_increment = 0

adjusted_depth(depth, local_increment) ==
    IF is_in_root(local_increment) THEN 0 ELSE depth + 2

\* the text `s` of render_object's string branch
StringBranchText(value, indent, depth, local_increment) ==
    IF starts_with_http(value)
    THEN indent \o value
    ELSE LET formatted ==
                 split_at_period(value, adjusted_depth(depth, local_increment))
         IN  IF formatted.owned THEN formatted.text
             ELSE IF is_in_root(local_increment) THEN value
             ELSE indent \o value

Frame(fn, items, depth, style, ret, mark) ==
    [fn |-> fn, items |-> items, i |-> 1, depth |-> depth, style |-> style,
     ret |-> ret, mark |-> mark]

\* mutant: an empty container printed like a scalar
render_value_prints_empty(value, depth, style, written_before, ret, mark) ==
    IF value.kind \in {"object", "array"} /\ ~is_empty(value)
    THEN [text |-> <<>>,
          frames |-> <<Frame(IF value.kind = "object" THEN "render_object"
                             ELSE "render_array",
                             value.items, depth, style, ret, mark)>>]
    ELSE IF value.kind = "object"
    THEN [text |-> format_value(<<"{", "}">>, style, written_before), frames |-> <<>>]
    ELSE IF value.kind = "array"
    THEN [text |-> format_value(<<"[", "]">>, style, written_before), frames |-> <<>>]
    ELSE IF value.kind = "null"
    THEN [text |-> format_value(NullText, style, written_before), frames |-> <<>>]
    ELSE [text |-> format_value(value.s, style, written_before), frames |-> <<>>]

\* render_value: what it appends itself, and the frame of the renderer it calls
render_value(value, depth, style, written_before, ret, mark) ==
    IF value.kind = "object"
    THEN [text |-> <<>>,
          frames |-> <<Frame("render_object", value.items, depth, style, ret, mark)>>]
    ELSE IF value.kind = "array"
    THEN [text |-> <<>>,
          frames |-> <<Frame("render_array", value.items, depth, style, ret, mark)>>]
    ELSE IF value.kind = "null"
    THEN [text |-> format_value(NullText, style, written_before), frames |-> <<>>]
    ELSE [text |-> format_value(value.s, style, written_before), frames |-> <<>>]

array_marker(style) == IF style = "NestedItem" THEN NestedArrayMarker ELSE ArrayMarker

NoLast ==
    [op |-> "none", idx |-> 0, key |-> <<>>, value |-> Null, depth |-> 0,
     style |-> "Root", new_style |-> "Root", label |-> <<>>, before |-> 0,
     nframes |-> 0, reflowed |-> FALSE, adjusted_depth |-> 0, parts |-> <<>>]

Top == stack[Len(stack)]

Pop == SubSeq(stack, 1, Len(stack) - 1)

Advance == [stack EXCEPT ![Len(stack)].i = @ + 1]

\* render: the call of render_value(json, 0, Root, output, false)
Render ==
    /\ pc = "start"
    /\ LET call == render_value(json, 0, "Root", FALSE, "render", 0)
       IN  /\ output' = call.text
           /\ stack' = call.frames
    /\ pc' = "run"
    /\ last' = [NoLast EXCEPT !.op = "render", !.value = json]
    /\ UNCHANGED <<indent_spaces, depth_increment, json>>

\* one iteration of render_object's loop, up to the recursive call it makes
RenderObjectEntry ==
    /\ pc = "run"
    /\ stack # <<>>
    /\ Top.fn = "render_object"
    /\ Top.i <= Len(Top.items)
    /\ LET depth  == Top.depth
           indent == get_indent(depth)
           key    == Top.items[Top.i][1]
           value  == Top.items[Top.i][2]
           tr     == StyleTransition(depth, Top.style)
           label  == formatted_key(indent, tr.new_style, tr.header_marker, key)
           next_depth == depth + tr.depth_increment
           reflow == value.kind = "string" /\ ~starts_with_http(value.s)
           event  == [NoLast EXCEPT
                        !.op = "render_object", !.idx = Top.i, !.key = key,
                        !.value = value, !.depth = depth, !.style = Top.style,
                        !.new_style = tr.new_style, !.label = label,
                        !.before = Len(output), !.nframes = Len(stack),
                        !.reflowed = reflow,
                        !.adjusted_depth =
                            IF reflow THEN adjusted_depth(depth, tr.depth_increment)
                            ELSE 0]
       IN  /\ last' = event
           /\ IF IsNonEmpty(value, "object")
              THEN /\ output' = output \o label \o BlankLine
                   /\ stack' = Advance \o
                        <<Frame("render_object", value.items, next_depth,
                                tr.new_style, "object", Len(output'))>>
              ELSE IF IsNonEmpty(value, "array")
              THEN /\ output' = output \o label \o BlankLine
                   /\ stack' = Advance \o
                        <<Frame("render_array", value.items, next_depth,
                                "NestedItem", "array_tail", Len(output'))>>
              ELSE IF value.kind = "string"
              THEN /\ output' = output \o label \o BlankLine
                          \o StringBranchText(value.s, indent, depth, tr.depth_increment)
                          \o <<NL>>
                   /\ stack' = Advance
              ELSE LET call == render_value(value, next_depth, "NestedItem", TRUE,
                                            "value", Len(output) + Len(label))
                   IN  /\ output' = output \o label \o call.text
                       /\ stack' = Advance \o call.frames
    /\ UNCHANGED <<indent_spaces, depth_increment, json, pc>>

\* one iteration of render_array's loop, up to the recursive call it makes
RenderArrayItem ==
    /\ pc = "run"
    /\ stack # <<>>
    /\ Top.fn = "render_array"
    /\ Top.i <= Len(Top.items)
    /\ LET depth  == Top.depth
           indent == get_indent(depth)
           item   == Top.items[Top.i][2]
           marker == array_marker(Top.style)
           hyphen == indent \o marker
           next_depth == depth + depth_increment
           plain  == ~IsNonEmpty(item, "object") /\ ~IsNonEmpty(item, "array")
           event  == [NoLast EXCEPT
                        !.op = "render_array", !.idx = Top.i, !.value = item,
                        !.depth = depth, !.style = Top.style,
                        !.new_style = "NestedItem",
                        !.label = IF plain THEN hyphen ELSE <<>>,
                        !.before = Len(output), !.nframes = Len(stack)]
       IN  /\ last' = event
           /\ IF IsNonEmpty(item, "object")
              THEN /\ output' = output
                   /\ stack' = Advance \o
                        <<Frame("render_object", item.items, next_depth,
                                "NestedItem", "item", Len(output))>>
              ELSE IF IsNonEmpty(item, "array")
              THEN /\ output' = output
                   /\ stack' = Advance \o
                        <<Frame("render_array", item.items, next_depth,
                                "NestedItem", "item", Len(output))>>
              ELSE IF item.kind = "string"
              THEN /\ output' = output \o hyphen \o item.s \o <<NL>>
                   /\ stack' = Advance
              ELSE LET call == render_value(item, next_depth, "NestedItem", FALSE,
                                            "value", Len(output) + Len(hyphen))
                   IN  /\ output' = output \o hyphen \o call.text
                       /\ stack' = Advance \o call.frames
    /\ UNCHANGED <<indent_spaces, depth_increment, json, pc>>

\* the end of a renderer's loop: back in the caller, which after a non-empty
\* array value (render_object) appends a blank line.  `last` keeps the number
\* of items the renderer had and the length the buffer had when it was called.
Return ==
    /\ pc = "run"
    /\ stack # <<>>
    /\ Top.i > Len(Top.items)
    /\ output' = output \o (IF Top.ret = "array_tail" THEN BlankLine ELSE <<>>)
    /\ stack' = Pop
    /\ last' = [NoLast EXCEPT !.op = "return", !.idx = Len(Top.items),
                              !.before = Top.mark, !.nframes = Len(stack)]
    /\ UNCHANGED <<indent_spaces, depth_increment, json, pc>>

\* render returns the buffer
RenderDone ==
    /\ pc = "run"
    /\ stack = <<>>
    /\ pc' = "done"
    /\ UNCHANGED <<indent_spaces, depth_increment, json, output, stack, last>>

---------------------------------------------------------------------------
(* Inputs *)

KeyTitle == <<"t", "i", "t", "l", "e">>
KeyAB == <<"a", "_", "b">>
Keys == {KeyTitle, KeyAB}

MyProject == <<"M", "y", " ", "P", "r", "o", "j", "e", "c", "t">>

DrSmith ==
    <<"D", "r", ".", " ", "S", "m", "i", "t", "h", " ", "w", "e", "n", "t", " ",
      "h", "o", "m", "e", ".", " ", "H", "e", " ", "w", "a", "s", " ",
      "t", "i", "r", "e", "d", ".">>

\* a URL with a sentence break and surrounding whitespace in it
UrlText ==
    <<"h", "t", "t", "p", ":", "/", "/", "a", ".", " ", "b", ".", " ">>

Leaves ==
    {Null, Bool(<<"t", "r", "u", "e">>), Number(<<"7">>),
     String(MyProject), String(DrSmith), String(UrlText)}

Siblings == {Null, String(DrSmith)}

\* values nested at most d containers deep; an object's keys are in the
\* map's (sorted) order; a container of two has a sibling beside the value
RECURSIVE Values(_)
Values(d) ==
    IF d = 0 THEN Leaves \cup {Object(<<>>), Array(<<>>)}
    ELSE LET V == Values(d - 1)
         IN  V
             \cup {Object(<< <<k, v>> >>) : k \in Keys, v \in V}
             \cup {Array(<<v>>) : v \in V}
             \cup {Object(<< <<KeyAB, v>>, <<KeyTitle, s>> >>) : v \in V, s \in Siblings}
             \cup {Object(<< <<KeyAB, s>>, <<KeyTitle, v>> >>) : v \in V, s \in Siblings}
             \cup {Array(<<v, s>>) : v \in V, s \in Siblings}
             \cup {Array(<<s, v>>) : v \in V, s \in Siblings}

Init ==
    /\ indent_spaces \in 0..MaxIndentSpaces
    /\ depth_increment \in 0..MaxDepthIncrement
    /\ json \in Values(MaxDepth)
    /\ output = <<>>
    /\ stack = <<>>
    /\ pc = "start"
    /\ last = NoLast

Next ==
    \/ Render
    \/ RenderObjectEntry
    \/ RenderArrayItem
    \/ Return
    \/ RenderDone

Spec == Init /\ [][Next]_vars

---------------------------------------------------------------------------
(* split_at_period on its own: every text over a small alphabet *)

SplitAlphabet == {".", " ", "A", "a"}

RECURSIVE TextsOfLength(_)
TextsOfLength(n) ==
    IF n = 0 THEN {<<>>}
    ELSE {<<c>> \o t : c \in SplitAlphabet, t \in TextsOfLength(n - 1)}

Texts == UNION {TextsOfLength(n) : n \in 0..MaxTextLen} \cup {DrSmith}

InitSplit ==
    /\ indent_spaces \in 0..MaxIndentSpaces
    /\ depth_increment = 0
    /\ json \in {String(t) : t \in Texts}
    /\ output = <<>>
    /\ stack = <<>>
    /\ pc = "start"
    /\ \E depth \in 0..MaxDepth : last = [NoLast EXCEPT !.depth = depth]

\* a call of split_at_period(text, depth); `output` is the text it returns
SplitAtPeriod ==
    /\ pc = "start"
    /\ LET formatted == split_at_period(json.s, last.depth)
       IN  /\ output' = formatted.text
           /\ last' = [last EXCEPT !.op = "split_at_period", !.value = json,
                                   !.reflowed = formatted.owned,
                                   !.adjusted_depth = last.depth,
                                   !.parts = formatted.parts]
    /\ pc' = "done"
    /\ UNCHANGED <<indent_spaces, depth_increment, json, stack>>

NextSplit == SplitAtPeriod

SpecSplit == InitSplit /\ [][NextSplit]_vars

---------------------------------------------------------------------------
(* src/src/cht.rs *)

TAB == <<" ", " ">>
LIST_TAG == <<"*", " ">>
H_TAG == "#"
SevenHashes == Repeat(H_TAG, 7)
SixHashes == Repeat(H_TAG, 6)

RECURSIVE RepeatText(_, _)
RepeatText(text, n) == IF n = 0 THEN <<>> ELSE text \o RepeatText(text, n - 1)

\* str::replace: the non-overlapping occurrences, left to right
RECURSIVE Replace(_, _, _)
Replace(text, from, to) ==
    LET found == {p \in 1..Len(text) : OccursAt(text, from, p)}
    IN  IF found = {} THEN text
        ELSE LET p == CHOOSE m \in found : \A n \in found : m <= n
             IN  SubSeq(text, 1, p - 1) \o to
                 \o Replace(SubSeq(text, p + Len(from), Len(text)), from, to)

\* Display of a scalar serde_json::Value: its JSON text
DisplayValue(value) ==
    IF value.kind = "string" THEN <<"\"">> \o value.s \o <<"\"">>
    ELSE IF value.kind = "null" THEN <<"n", "u", "l", "l">>
    ELSE value.s

build_header_chain(depth, value) ==
    (IF depth > 0 THEN LIST_TAG ELSE <<>>)
    \o Repeat(H_TAG, depth + 1) \o <<" ">> \o to_title_case(value) \o <<" ">>
    \o Repeat(H_TAG, depth + 1) \o <<NL>>

saturating_sub(a, b) == IF a >= b THEN a - b ELSE 0

build_value_chain(key, value, depth) ==
    RepeatText(TAB, saturating_sub(depth, 1)) \o LIST_TAG \o <<":", " ">>
    \o DisplayValue(value) \o <<NL>>

is_container(value) == value.kind \in {"object", "array"}

\* parse_json: the frame of the parser it calls, none for a scalar
parse_json(json_block, depth, mark) ==
    IF json_block.kind = "object"
    THEN <<Frame("parse_dict", json_block.items, depth, "Root", "parse_json", mark)>>
    ELSE IF json_block.kind = "array"
    THEN <<Frame("parse_list", json_block.items, depth, "Root", "parse_json", mark)>>
    ELSE <<>>

\* just_do_it: load_json, then parse_json(&json_data, 0, &mut markdown)
ParseJson ==
    /\ pc = "start"
    /\ stack' = parse_json(json, 0, 0)
    /\ pc' = "parse"
    /\ last' = [NoLast EXCEPT !.op = "parse_json", !.value = json]
    /\ UNCHANGED <<indent_spaces, depth_increment, json, output>>

\* one iteration of parse_dict's loop
ParseDictEntry ==
    /\ pc = "parse"
    /\ stack # <<>>
    /\ Top.fn = "parse_dict"
    /\ Top.i <= Len(Top.items)
    /\ LET k == Top.items[Top.i][1]
           v == Top.items[Top.i][2]
       IN  /\ last' = [NoLast EXCEPT !.op = "parse_dict", !.idx = Top.i, !.key = k,
                                     !.value = v, !.depth = Top.depth,
                                     !.before = Len(output), !.nframes = Len(stack)]
           /\ IF is_container(v)
              THEN /\ output' = output \o build_header_chain(Top.depth, k)
                   /\ stack' = Advance \o parse_json(v, Top.depth + 1, Len(output'))
              ELSE /\ output' = output \o build_value_chain(k, v, Top.depth)
                   /\ stack' = Advance
    /\ UNCHANGED <<indent_spaces, depth_increment, json, pc>>

\* one iteration of parse_list's loop; as_object().unwrap() panics on an array
ParseListItem ==
    /\ pc = "parse"
    /\ stack # <<>>
    /\ Top.fn = "parse_list"
    /\ Top.i <= Len(Top.items)
    /\ LET value == Top.items[Top.i][2]
       IN  /\ last' = [NoLast EXCEPT !.op = "parse_list", !.idx = Top.i,
                                     !.value = value, !.depth = Top.depth,
                                     !.before = Len(output), !.nframes = Len(stack)]
           /\ IF ~is_container(value)
              THEN /\ output' = output \o build_value_chain(<<>>, value, Top.depth)
                   /\ stack' = Advance
                   /\ pc' = pc
              ELSE IF value.kind = "object"
              THEN /\ output' = output
                   /\ stack' = Advance \o
                        <<Frame("parse_dict", value.items, Top.depth, "Root",
                                "parse_list", Len(output))>>
                   /\ pc' = pc
              ELSE /\ output' = output
                   /\ stack' = stack
                   /\ pc' = "panic"
    /\ UNCHANGED <<indent_spaces, depth_increment, json>>

\* the end of parse_dict's or parse_list's loop
ParseReturn ==
    /\ pc = "parse"
    /\ stack # <<>>
    /\ Top.i > Len(Top.items)
    /\ stack' = Pop
    /\ last' = [NoLast EXCEPT !.op = "return", !.before = Len(output),
                              !.nframes = Len(stack)]
    /\ UNCHANGED <<indent_spaces, depth_increment, json, output, pc>>

\* markdown = markdown.replace("#######", "######")
Cleanup ==
    /\ pc = "parse"
    /\ stack = <<>>
    /\ output' = Replace(output, SevenHashes, SixHashes)
    /\ pc' = "cleaned"
    /\ last' = [NoLast EXCEPT !.op = "replace", !.before = Len(output)]
    /\ UNCHANGED <<indent_spaces, depth_increment, json, stack>>

\* write_out(&markdown, output_file)
WriteOut ==
    /\ pc = "cleaned"
    /\ pc' = "written"
    /\ UNCHANGED <<indent_spaces, depth_increment, json, output, stack, last>>

\* documents nested at most d containers deep
RECURSIVE ChtValues(_)
ChtValues(d) ==
    IF d = 0 THEN {Null, Number(<<"7">>), String(Repeat(H_TAG, 8)), Object(<<>>)}
    ELSE LET V == ChtValues(d - 1)
         IN  V
             \cup {Object(<< <<KeyAB, v>> >>) : v \in V}
             \cup {Array(<<v>>) : v \in V}

InitCht ==
    /\ indent_spaces = 0
    /\ depth_increment = 0
    /\ json \in ChtValues(MaxChtDepth)
    /\ output = <<>>
    /\ stack = <<>>
    /\ pc = "start"
    /\ last = NoLast

NextCht ==
    \/ ParseJson
    \/ ParseDictEntry
    \/ ParseListItem
    \/ ParseReturn
    \/ Cleanup
    \/ WriteOut

SpecCht == InitCht /\ [][NextCht]_vars

---------------------------------------------------------------------------
(* Properties *)

\* what the loop iteration that ran last appended to the buffer
Chunk == SubSeq(output, last.before + 1, Len(output))

RECURSIVE OccursInOrder(_, _, _)
OccursInOrder(text, parts, from) ==
    IF parts = <<>> THEN TRUE
    ELSE \E p \in from..Len(text) :
            /\ OccursAt(text, Head(parts), p)
            /\ OccursInOrder(text, Tail(parts), p + Len(Head(parts)))

H2 == <<"#", "#", " ">>
H3 == <<"#", "#", "#", " ">>
NotAvailable == <<"N", "/", "A">>

TopLevelKey == last.op = "render_object" /\ last.nframes = 1

\* C1: every top-level key of a root object is emitted as `## ` + the
\* title-cased key + a blank line, with nothing before the `##`, whatever its
\* value; the headers are in the buffer in the map's order when render returns.
C1_TopLevelKeysAreH2 ==
    /\ TopLevelKey =>
          /\ last.key = json.items[last.idx][1]
          /\ StartsWith(Chunk, H2 \o to_title_case(last.key) \o <<NL, NL>>)
    /\ (pc = "done" /\ json.kind = "object") =>
          OccursInOrder(output,
                        [i \in 1..Len(json.items) |->
                            H2 \o to_title_case(json.items[i][1]) \o <<NL, NL>>],
                        1)

C1_Witness ==
    /\ TopLevelKey
    /\ last.idx = 2
    /\ last.value.kind = "array"
    /\ ~is_empty(last.value)

\* a key of a non-empty object that is the value of a top-level key
SecondLevelKey ==
    /\ last.op = "render_object"
    /\ last.nframes = 2
    /\ stack[1].fn = "render_object"

\* C2: a second-level key is rendered by render_object at (depth 1, Section)
\* as a level-3 header `### ` + the title-cased key.
C2_SecondLevelKeysAreH3 ==
    SecondLevelKey =>
        /\ last.depth = 1
        /\ last.style = "Section"
        /\ last.new_style = "Subsection"
        /\ Contains(Chunk, H3 \o to_title_case(last.key))

IsTitleExample ==
    /\ indent_spaces = 1
    /\ depth_increment = 2
    /\ json = Object(<< <<KeyTitle, String(MyProject)>> >>)
    /\ pc = "done"

TitleHeader == <<"#", "#", " ", "T", "i", "t", "l", "e">>

\* C3 as stated: {"title": "My Project"} renders to `## Title`, exactly two
\* newlines, the value after some indentation, one newline.
C3_TitleExampleOneBlankLine ==
    IsTitleExample =>
        \E width \in 0..Len(output) :
            output = TitleHeader \o <<NL, NL>> \o Repeat(" ", width)
                     \o MyProject \o <<NL>>

\* C3 amended: {"title": "My Project"} renders to `## Title`, four newlines
\* (the heading's blank line and the string branch's), the value with no
\* indentation, one newline.
C3_TitleExampleFourNewlines ==
    IsTitleExample =>
        output = TitleHeader \o <<NL, NL, NL, NL>> \o MyProject \o <<NL>>

C3_Witness == IsTitleExample /\ Len(output) > 0

\* C4: a null is written as `N/A`: alone with its newlines at the root, after
\* `: ` behind a key label, after the marker in an array, then one newline.
C4_NullIsNotAvailable ==
    (last.value.kind = "null") =>
        /\ last.op = "render" => output = NotAvailable \o <<NL, NL>>
        /\ last.op = "render_object" =>
              Chunk = last.label \o <<":", " ">> \o NotAvailable \o <<NL>>
        /\ last.op = "render_array" =>
              Chunk = last.label \o NotAvailable \o <<NL>>

C4_Witness ==
    /\ last.value.kind = "null"
    /\ last.op = "render_object"
    /\ last.nframes = 2
    /\ last.new_style = "ListItem"

\* C5: render of {} and of [] is the empty string, and a renderer called on
\* an empty object or array returns with the buffer as long as it was.
C5_EmptyContainersRenderNothing ==
    /\ (pc = "done" /\ json \in {Object(<<>>), Array(<<>>)}) => output = <<>>
    /\ (stack # <<>> /\ Len(Top.items) = 0) => Len(output) = Top.mark
    /\ (last.op = "return" /\ last.idx = 0) => Len(output) = last.before

C5_Witness ==
    /\ last.op = "return"
    /\ last.idx = 0
    /\ last.nframes = 3
    /\ Len(output) > 0

\* a period followed by one whitespace character that is not followed by an
\* uppercase letter and a period
SplitPoint(text, i) ==
    /\ text[i] = "."
    /\ i + 1 <= Len(text)
    /\ IsWhitespace(text[i + 1])
    /\ ~ /\ i + 3 <= Len(text)
         /\ IsUpper(text[i + 2])
         /\ text[i + 3] = "."

SplitPoints(text) == {i \in 1..Len(text) : SplitPoint(text, i)}

IsDrSmithExample == pc = "done" /\ last.op = "split_at_period" /\ json.s = DrSmith

\* C6 as stated: "Dr. Smith went home. He was tired." gives exactly two chunks.
C6_DrSmithTwoChunks == IsDrSmithExample => Len(last.parts) = 2

\* C6 amended: split_at_period splits at every period followed by whitespace
\* unless that one whitespace character is followed by an uppercase letter and
\* a period; "Dr. Smith went home. He was tired." gives three chunks, split
\* after "Dr" and after "home".
C6_SplitsAtPeriodWhitespace ==
    (pc = "done" /\ last.op = "split_at_period") =>
        /\ last.reflowed <=> SplitPoints(json.s) # {}
        /\ last.reflowed => Len(last.parts) = Cardinality(SplitPoints(json.s)) + 1
        /\ ~last.reflowed => output = json.s
        /\ json.s = DrSmith =>
              /\ last.parts = <<SubSeq(DrSmith, 1, 2), SubSeq(DrSmith, 4, 19),
                                SubSeq(DrSmith, 21, 34)>>
              /\ output = Repeat(" ", last.depth * indent_spaces)
                          \o SubSeq(DrSmith, 1, 2) \o <<NL, NL>>
                          \o Repeat(" ", last.depth * indent_spaces)
                          \o SubSeq(DrSmith, 5, 19) \o <<NL, NL>>
                          \o Repeat(" ", last.depth * indent_spaces)
                          \o SubSeq(DrSmith, 22, 34) \o <<NL, NL>>

C6_Witness == IsDrSmithExample /\ last.depth = 1 /\ indent_spaces = 1

IsUrlValue ==
    /\ last.op \in {"render", "render_object", "render_array"}
    /\ last.value.kind = "string"
    /\ StartsWith(last.value.s, <<"h", "t", "t", "p">>)

\* C7: a string beginning with `http` is copied whole: at the root with its
\* newlines, after the key label's blank line and indentation only, after the
\* array marker; each time followed by a newline.
C7_UrlsAreVerbatim ==
    IsUrlValue =>
        /\ Contains(output, last.value.s)
        /\ last.op = "render" => output = last.value.s \o <<NL, NL>>
        /\ last.op = "render_object" =>
              \E width \in 0..Len(Chunk) :
                  Chunk = last.label \o <<NL, NL>> \o Repeat(" ", width)
                          \o last.value.s \o <<NL>>
        /\ last.op = "render_array" => Chunk = last.label \o last.value.s \o <<NL>>

C7_Witness ==
    /\ IsUrlValue
    /\ last.op = "render_object"
    /\ last.new_style = "ListItem"
    /\ last.depth > 0
    /\ indent_spaces > 0

HasRunOfHashes(text, n) ==
    \E p \in 1..Len(text) :
        /\ p + n - 1 <= Len(text)
        /\ \A q \in p..(p + n - 1) : text[q] = "#"

\* C8: the finished output has no run of 7 or more `#`.
C8_NoRunOfSevenHashes == pc = "written" => ~HasRunOfHashes(output, 7)

\* C9: render_object reflows a string value at depth 0 exactly when the key
\* is a header (Section, Subsection) and at depth + 2 when it is a list item.
C9_ReflowDepth ==
    (last.op = "render_object" /\ last.reflowed) =>
        last.adjusted_depth =
            IF last.new_style \in {"Section", "Subsection"} THEN 0
            ELSE last.depth + 2

\* C10: a non-empty result of render ends with a newline.
C10_OutputEndsWithNewline ==
    (pc = "done" /\ output # <<>>) => output[Len(output)] = NL

====
